---- MODULE Spec2Model ----
(***************************************************************************)
(* toggl-invoice-generator: fetch time entries, aggregate them per project *)
(* at a configured hourly rate, render an invoice, download a report.      *)
(*                                                                         *)
(* Number representation.  Python floats that carry decimal quantities are *)
(* kept as exact integers in a fixed unit:                                 *)
(*   hours        in thousandths of an hour  (HoursScale)                  *)
(*   hourly rates in cents                   (RateScale)                   *)
(*   hours*rate   in 1/100000 of a dollar    (HoursScale * RateScale)      *)
(* round(x, 2) and the ".2f" format are modelled by what they do: they     *)
(* move a value to the grid of hundredths.  round(duration / 3600, 2) is   *)
(* computed exactly as binary64 computes it, ties included.  Where the     *)
(* operand of a rounding is itself a float product, an exact decimal tie   *)
(* is resolved by the operand's binary representation error, so both       *)
(* neighbours are possible outcomes and the step chooses one of them.      *)
(* The binary representation error of sums and products is otherwise not   *)
(* represented.                                                            *)
(***************************************************************************)
EXTENDS Integers, Sequences, FiniteSets, TLC

VARIABLES
    pc,            \* position of the run in main() / of the library call
    now,           \* the local clock: datetime.now()
    config,        \* content of config.toml as read by Settings()
    settings,      \* the validated Settings object
    upstream,      \* what the Toggl server answers: entries and report response
    requests,      \* HTTP requests issued so far, in order
    time_entries,  \* list[TimeEntry] returned by get_time_entries
    summaries,     \* list[ProjectSummary]
    printed,       \* lines written to standard output
    invoice,       \* the document built by InvoiceGenerator
    files,         \* files on disk: set of [path, content]
    error,         \* the exception that terminated the run
    overrides      \* optional arguments the caller passes to create_invoice*

vars == <<pc, now, config, settings, upstream, requests, time_entries,
          summaries, printed, invoice, files, error, overrides>>

----------------------------------------------------------------------------
(* Generic helpers *)

Abs(x) == IF x < 0 THEN -x ELSE x

\* int(x / d) for an exact quotient: Python's int() truncates toward zero
TruncDiv(x, d) == IF x >= 0 THEN x \div d ELSE -((-x) \div d)

RECURSIVE SumSeq(_)
\* sum(...) over a list of numbers, starting from 0
SumSeq(s) == IF s = <<>> THEN 0 ELSE Head(s) + SumSeq(Tail(s))

\* [f(x) for x in s]
MapSeq(s, F(_)) == [i \in 1..Len(s) |-> F(s[i])]

RECURSIVE SeqsUpTo(_, _)
\* all lists over S of length at most n
SeqsUpTo(S, n) ==
    IF n = 0 THEN {<<>>}
    ELSE LET shorter == SeqsUpTo(S, n - 1)
         IN  shorter \cup {Append(s, x) : s \in {t \in shorter : Len(t) = n - 1}, x \in S}

RECURSIVE Product(_)
\* all lists that pick one element of each set of a list of sets
Product(sets) ==
    IF sets = <<>> THEN {<<>>}
    ELSE {<<x>> \o rest : x \in Head(sets), rest \in Product(Tail(sets))}

----------------------------------------------------------------------------
(* Rounding to two decimals *)

HoursScale == 1000
RateScale == 100
SecondsPerHour == 3600

RECURSIVE PowMod(_, _, _)
PowMod(b, k, m) == IF k = 0 THEN 1 % m ELSE (b * PowMod(b, k - 1, m)) % m

RECURSIVE Log2Up(_, _, _)
\* least j >= from with n * 2^j >= bound
Log2Up(n, bound, from) == IF n >= bound THEN from ELSE Log2Up(2 * n, bound, from + 1)

RECURSIVE Log2Down(_, _, _)
\* greatest L >= from with bound * 2^L <= n   (n >= bound)
Log2Down(n, bound, from) == IF 2 * bound > n THEN from ELSE Log2Down(n, 2 * bound, from + 1)

\* Whether the binary64 quotient a / 3600 lies above the decimal tie n / 200
\* (a = 36q + 18, n = 2q + 1).  The quotient is the double nearest to n / 200;
\* with 2^52 <= (n / 200) * 2^e < 2^53 its mantissa is n * 2^(e-3) / 25 rounded
\* to an integer, so the residue of n * 2^(e-3) modulo 25 tells the direction.
\* n / 200 is itself a double when 25 divides n: round() then goes half-even.
TieGoesUp(q) ==
    LET n == 2 * q + 1
        L == IF n >= 200 THEN Log2Down(n, 200, 0) ELSE -Log2Up(n, 200, 0)
        e == 52 - L
        rem == (n * PowMod(2, e - 3, 25)) % 25
    IN  IF n % 25 = 0 THEN q % 2 = 1 ELSE rem >= 13

\* round(duration / 3600, 2), in hundredths of an hour
RoundedCentiHours(duration) ==
    LET a == Abs(duration)
        q == a \div 36
        r == a % 36
        c == IF r < 18 THEN q
             ELSE IF r > 18 THEN q + 1
             ELSE IF TieGoesUp(q) THEN q + 1 ELSE q
    IN  IF duration < 0 THEN -c ELSE c

\* round(x, 2) / f"{x:.2f}" of a float that stands for num / den (den a multiple
\* of 100): the nearest hundredth; on an exact decimal tie either neighbour
RoundChoices(num, den) ==
    LET a == Abs(num)
        unit == den \div 100
        q == a \div unit
        r == a % unit
        sgn == IF num < 0 THEN -1 ELSE 1
    IN  IF 2 * r < unit THEN {sgn * q}
        ELSE IF 2 * r > unit THEN {sgn * (q + 1)}
        ELSE {sgn * q, sgn * (q + 1)}

----------------------------------------------------------------------------
(* binary64 values near decimals.  A float is [dec, err, exp]: the value     *)
(* dec / HoursScale + err / (125 * 2^exp), a multiple of 2^-exp.             *)

\* floor(log2(k / HoursScale)) for k > 0
BinaryExponent(k) ==
    IF k >= HoursScale THEN Log2Down(k, HoursScale, 0) ELSE -Log2Up(k, HoursScale, 0)

\* k / HoursScale is a power of two (k > 0)
IsPowerOfTwo(k) ==
    LET L == BinaryExponent(k)
    IN  IF L >= 0 THEN HoursScale * 2^L = k ELSE k * 2^(-L) = HoursScale

FloatZero == [dec |-> 0, err |-> 0, exp |-> 0]

FloatNeg(x) == [dec |-> -x.dec, err |-> -x.err, exp |-> x.exp]

\* the double nearest to k / HoursScale, as a float literal or round(x, 2)
\* gives it: with 2^52 <= (k / 1000) * 2^e < 2^53 the mantissa is
\* k * 2^(e-3) / 125 rounded to an integer
FloatNearest(k) ==
    LET e == 52 - BinaryExponent(k)
        rho == ((k % 125) * PowMod(2, e - 3, 125)) % 125
    IN  [dec |-> k, err |-> IF rho <= 62 THEN -rho ELSE 125 - rho, exp |-> e]

Float(k) ==
    IF k = 0 THEN FloatZero
    ELSE IF k < 0 THEN FloatNeg(FloatNearest(-k))
    ELSE FloatNearest(k)

\* x + y of two floats with a positive decimal sum k3: the exact sum is
\* k3 / 1000 + K / (125 * 2^emax), rounded half-even to 53 bits
FloatAddPositive(x, y) ==
    LET emax == IF x.exp >= y.exp THEN x.exp ELSE y.exp
        K == x.err * 2^(emax - x.exp) + y.err * 2^(emax - y.exp)
        k3 == x.dec + y.dec
        L == BinaryExponent(k3) - (IF IsPowerOfTwo(k3) /\ K < 0 THEN 1 ELSE 0)
        et == 52 - L
        shift == emax - et
        rho == ((k3 % 125) * PowMod(2, et - 3, 125)) % 125
        Z == rho * 2^shift + K
        D == 125 * 2^shift
        j == IF Z >= 0 THEN Z \div D ELSE -((-Z + D - 1) \div D)
        rem == Z - j * D
        jr == IF 2 * rem < D THEN j
              ELSE IF 2 * rem > D THEN j + 1
              ELSE IF (rho + j) % 2 = 0 THEN j ELSE j + 1
    IN  IF et >= emax THEN [dec |-> k3, err |-> K, exp |-> emax]
        ELSE [dec |-> k3, err |-> 125 * jr - rho, exp |-> et]

\* x + y in binary64
FloatAdd(x, y) ==
    IF x.dec = 0 /\ x.err = 0 THEN y
    ELSE IF y.dec = 0 /\ y.err = 0 THEN x
    ELSE IF x.dec + y.dec = 0
         THEN LET emax == IF x.exp >= y.exp THEN x.exp ELSE y.exp
                  K == x.err * 2^(emax - x.exp) + y.err * 2^(emax - y.exp)
              IN  IF K = 0 THEN FloatZero ELSE [dec |-> 0, err |-> K, exp |-> emax]
    ELSE IF x.dec + y.dec < 0 THEN FloatNeg(FloatAddPositive(FloatNeg(x), FloatNeg(y)))
    ELSE FloatAddPositive(x, y)

RECURSIVE FloatSum(_)
\* sum(...) of a list of floats, left to right from 0
FloatSum(s) == IF s = <<>> THEN FloatZero ELSE FloatAdd(FloatSum(SubSeq(s, 1, Len(s) - 1)), s[Len(s)])

FloatIsNegative(x) == x.dec < 0 \/ (x.dec = 0 /\ x.err < 0)

\* int(x): truncation toward zero
FloatInt(x) ==
    LET a == IF FloatIsNegative(x) THEN FloatNeg(x) ELSE x
        q == a.dec \div HoursScale
        n == IF a.dec % HoursScale = 0 /\ a.err < 0 /\ a.dec > 0 THEN q - 1 ELSE q
    IN  IF FloatIsNegative(x) THEN -n ELSE n

\* int(x * 60) for a float x >= 0 below 1 + 2^-52: the exact product is
\* 3 * dec / 50 + 12 * err / (25 * 2^exp); where 3 * dec / 50 is a whole number
\* m and err < 0, the product rounds to m when it lies within half the spacing
\* of the doubles below m
FloatMinutesPositive(x) ==
    LET m == (3 * x.dec) \div 50
        pb == IF m >= 1 THEN Log2Down(m, 1, 0) - (IF 2^Log2Down(m, 1, 0) = m THEN 1 ELSE 0) ELSE 0
        sh == x.exp + pb - 53
        reaches == IF sh >= 0 THEN 12 * (-x.err) <= 25 * 2^sh
                   ELSE 12 * (-x.err) * 2^(-sh) <= 25
    IN  IF (3 * x.dec) % 50 # 0 \/ x.err >= 0 \/ m = 0 THEN m
        ELSE IF reaches THEN m ELSE m - 1

\* int(x * 60)
FloatMinutes(x) ==
    IF FloatIsNegative(x) THEN -FloatMinutesPositive(FloatNeg(x)) ELSE FloatMinutesPositive(x)

----------------------------------------------------------------------------
(* Calendar: datetime, timedelta, strptime and strftime as the source uses  *)
(* them.  A date is [y, m, d]; a datetime adds hh, mi, ss and is in UTC.    *)

IsLeap(y) == y % 4 = 0 /\ (y % 100 # 0 \/ y % 400 = 0)

DaysInMonthTable == <<31, 28, 31, 30, 31, 30, 31, 31, 30, 31, 30, 31>>
DaysBeforeMonthTable == <<0, 31, 59, 90, 120, 151, 181, 212, 243, 273, 304, 334>>

DaysInMonth(y, m) == IF m = 2 /\ IsLeap(y) THEN 29 ELSE DaysInMonthTable[m]

DaysBeforeYear(y) ==
    (y - 1) * 365 + ((y - 1) \div 4) - ((y - 1) \div 100) + ((y - 1) \div 400)

DaysBeforeMonth(y, m) ==
    DaysBeforeMonthTable[m] + (IF m > 2 /\ IsLeap(y) THEN 1 ELSE 0)

\* date.toordinal()
Ymd2Ord(dt) == DaysBeforeYear(dt.y) + DaysBeforeMonth(dt.y, dt.m) + dt.d

\* date.fromordinal(n)
Ord2Ymd(ordinal) ==
    LET n0 == ordinal - 1
        n400 == n0 \div 146097
        r400 == n0 % 146097
        n100 == r400 \div 36524
        r100 == r400 % 36524
        n4 == r100 \div 1461
        r4 == r100 % 1461
        n1 == r4 \div 365
        n == r4 % 365
        year == n400 * 400 + 1 + n100 * 100 + n4 * 4 + n1
        leapyear == n1 = 3 /\ (n4 # 24 \/ n100 = 3)
        month0 == (n + 50) \div 32
        preceding0 == DaysBeforeMonthTable[month0] + (IF month0 > 2 /\ leapyear THEN 1 ELSE 0)
        month == IF preceding0 > n THEN month0 - 1 ELSE month0
        preceding == IF preceding0 > n
                     THEN preceding0 - (DaysInMonthTable[month] + (IF month = 2 /\ leapyear THEN 1 ELSE 0))
                     ELSE preceding0
    IN  IF n1 = 4 \/ n100 = 4
        THEN [y |-> year - 1, m |-> 12, d |-> 31]
        ELSE [y |-> year, m |-> month, d |-> n - preceding + 1]

\* date + timedelta(days=k)
AddDays(dt, k) == Ord2Ymd(Ymd2Ord(dt) + k)

\* datetime(...).replace(hour=hh, minute=mi, second=ss, tzinfo=timezone.utc)
AtTime(dt, hh, mi, ss) == [y |-> dt.y, m |-> dt.m, d |-> dt.d, hh |-> hh, mi |-> mi, ss |-> ss]

\* datetime.date()
DateOf(t) == [y |-> t.y, m |-> t.m, d |-> t.d]

SecondOfDay(t) == t.hh * 3600 + t.mi * 60 + t.ss

\* a <= b on aware datetimes
DateTimeLeq(a, b) ==
    \/ Ymd2Ord(DateOf(a)) < Ymd2Ord(DateOf(b))
    \/ Ymd2Ord(DateOf(a)) = Ymd2Ord(DateOf(b)) /\ SecondOfDay(a) <= SecondOfDay(b)

\* a <= b on dates
DateLeq(a, b) == Ymd2Ord(a) <= Ymd2Ord(b)

(* Strings are lists of one-character strings. *)
Digits == <<"0", "1", "2", "3", "4", "5", "6", "7", "8", "9">>
DigitChars == {Digits[i] : i \in 1..10}
IsDigit(c) == c \in DigitChars
DigitVal(c) == (CHOOSE i \in 1..10 : Digits[i] = c) - 1

\* the month group of the format's regex: 1[0-2]|0[1-9]|[1-9]
MatchesMonth(tok) ==
    \/ Len(tok) = 2 /\ tok[1] = "1" /\ tok[2] \in {"0", "1", "2"}
    \/ Len(tok) = 2 /\ tok[1] = "0" /\ IsDigit(tok[2]) /\ tok[2] # "0"
    \/ Len(tok) = 1 /\ IsDigit(tok[1]) /\ tok[1] # "0"

\* the day group of the format's regex: 3[0-1]|[1-2]\d|0[1-9]|[1-9]| [1-9]
MatchesDay(tok) ==
    \/ Len(tok) = 2 /\ tok[1] = "3" /\ tok[2] \in {"0", "1"}
    \/ Len(tok) = 2 /\ tok[1] \in {"1", "2"} /\ IsDigit(tok[2])
    \/ Len(tok) = 2 /\ tok[1] \in {"0", " "} /\ IsDigit(tok[2]) /\ tok[2] # "0"
    \/ Len(tok) = 1 /\ IsDigit(tok[1]) /\ tok[1] # "0"

TokenVal(tok) ==
    IF Len(tok) = 1 THEN DigitVal(tok[1])
    ELSE (IF tok[1] = " " THEN 0 ELSE DigitVal(tok[1])) * 10 + DigitVal(tok[2])

\* datetime.strptime(s, "%Y-%m-%d"): [ok |-> FALSE] stands for ValueError
strptime(s) ==
    LET n == Len(s)
        bad == [ok |-> FALSE, y |-> 0, m |-> 0, d |-> 0]
        dash2 == IF n >= 7 /\ s[7] = "-" THEN 7 ELSE 8
    IN  IF n < 8 \/ n > 10 THEN bad
        ELSE IF ~(\A i \in 1..4 : IsDigit(s[i])) \/ s[5] # "-" \/ s[dash2] # "-" \/ dash2 = n THEN bad
        ELSE LET mtok == SubSeq(s, 6, dash2 - 1)
                 dtok == SubSeq(s, dash2 + 1, n)
                 year == DigitVal(s[1]) * 1000 + DigitVal(s[2]) * 100 + DigitVal(s[3]) * 10 + DigitVal(s[4])
             IN  IF ~MatchesMonth(mtok) \/ ~MatchesDay(dtok) THEN bad
                 ELSE IF year < 1 \/ TokenVal(dtok) > DaysInMonth(year, TokenVal(mtok)) THEN bad
                 ELSE [ok |-> TRUE, y |-> year, m |-> TokenVal(mtok), d |-> TokenVal(dtok)]

\* the date a successfully parsed string stands for
ParsedDate(s) == LET p == strptime(s) IN [y |-> p.y, m |-> p.m, d |-> p.d]

TwoDigits(k) == <<Digits[(k \div 10) + 1], Digits[(k % 10) + 1]>>
FourDigits(k) == <<Digits[(k \div 1000) + 1], Digits[((k \div 100) % 10) + 1]>> \o TwoDigits(k % 100)

\* date.strftime("%Y-%m-%d")   (years 1000..9999)
strftime(dt) == FourDigits(dt.y) \o <<"-">> \o TwoDigits(dt.m) \o <<"-">> \o TwoDigits(dt.d)

\* date.strftime("%Y%m%d")
strftimeCompact(dt) == FourDigits(dt.y) \o TwoDigits(dt.m) \o TwoDigits(dt.d)

----------------------------------------------------------------------------
(* Data model: toggl.TimeEntry, config.Project, analyze.ProjectSummary      *)

\* Optional[str] fields: None, as distinct from every string (also from "")
None == <<"None">>

\* bool(v) of an Optional[str]
Truthy(v) == v # None /\ v # <<>>

TimeEntry(client_name, duration, project_name, project_id, start, stop) ==
    [client_name |-> client_name, duration |-> duration, project_name |-> project_name,
     project_id |-> project_id, start |-> start, stop |-> stop]

\* TimeEntry.hours: round(self.duration / 3600, 2), in HoursScale units
hours(time_entry) == RoundedCentiHours(time_entry.duration) * (HoursScale \div 100)

Project(project_id, name, hourly_rate) ==
    [project_id |-> project_id, name |-> name, hourly_rate |-> hourly_rate]

\* ProjectSummary(project=..., hours=..., entries=...); other keyword arguments
\* are not fields of the model and are dropped.  hours is the decimal the float
\* stands for, in HoursScale units; hours_binary is what its binary64 value
\* adds to the decimal
ProjectSummary(project, hrs, entries) ==
    [project |-> project, hours |-> hrs.dec,
     hours_binary |-> [err |-> hrs.err, exp |-> hrs.exp], entries |-> entries]

\* the float self.hours of a summary
HoursFloat(summary) ==
    [dec |-> summary.hours, err |-> summary.hours_binary.err, exp |-> summary.hours_binary.exp]

\* ProjectSummary.total_revenue, in units of 1 / (HoursScale * RateScale) dollar
total_revenue(summary) == summary.hours * summary.project.hourly_rate

\* hour_minute_format rounding the minutes to the nearest instead of truncating
hour_minute_format_RoundsMinutes(summary) ==
    LET whole == FloatInt(HoursFloat(summary))
        minutes == TruncDiv((summary.hours - whole * HoursScale) * 60 + HoursScale \div 2, HoursScale)
    IN  <<whole, "h ", minutes, "m">>

\* ProjectSummary.hour_minute_format: hours = int(self.hours),
\* minutes = int((self.hours - hours) * 60), f"{hours}h {minutes}m";
\* self.hours - hours is exact in binary64
hour_minute_format(summary) ==
    LET x == HoursFloat(summary)
        whole == FloatInt(x)
        minutes == FloatMinutes([x EXCEPT !.dec = @ - whole * HoursScale])
    IN  <<whole, "h ", minutes, "m">>

\* ProjectSummary.short_summary: f"{name} - {hour_minute_format} - {total_revenue:.2f}";
\* the set of texts the ".2f" format can produce
short_summary(summary) ==
    {<<summary.project.name, " - ", hour_minute_format(summary), " - ", revenue>> :
        revenue \in RoundChoices(total_revenue(summary), HoursScale * RateScale)}

\* the entries of one project: "if time_entry.project_id == project.project_id"
EntriesOf(time_entries_, project) ==
    LET Matches(time_entry) == time_entry.project_id = project.project_id
    IN  SelectSeq(time_entries_, Matches)

\* TimeEntry.hours as the float round() returns
HoursOf(time_entry) == Float(hours(time_entry))

\* summarize_time_entries rounding the summed duration instead of summing the
\* rounded per-entry hours
summarize_time_entries_RoundsTotal(time_entries_, projects) ==
    LET Duration(time_entry) == time_entry.duration
    IN  [i \in 1..Len(projects) |->
            ProjectSummary(projects[i],
                           Float(RoundedCentiHours(SumSeq(MapSeq(EntriesOf(time_entries_, projects[i]), Duration)))
                                    * (HoursScale \div 100)),
                           time_entries_)]

\* analyze.summarize_time_entries
summarize_time_entries(time_entries_, projects) ==
    [i \in 1..Len(projects) |->
        ProjectSummary(projects[i],
                       FloatSum(MapSeq(EntriesOf(time_entries_, projects[i]), HoursOf)),
                       time_entries_)]

----------------------------------------------------------------------------
(* invoice.py: InvoiceLineItem, InvoiceGenerator, create_invoice*            *)
(* Free text (billed_to, pay_to, payment_terms) is a list of tokens in which *)
(* "\n" is the line break; a project name is a string, NoName when None.     *)

NoName == "None:NoneType"
NameTruthy(name) == name # NoName /\ name # ""

\* Optional[int] arguments: <<>> is None, <<v>> is the integer v
NoneInt == <<>>
SomeInt(v) == <<v>>

InvoiceLineItem(project_name, hrs, hourly_rate) ==
    [project_name |-> project_name, hours |-> hrs, hourly_rate |-> hourly_rate]

\* InvoiceLineItem.amount: round(self.hours * self.hourly_rate, 2), in cents;
\* the set of values the rounding can produce
amount(item) == RoundChoices(item.hours * item.hourly_rate, HoursScale * RateScale)

\* InvoiceGenerator._get_project_rate
_get_project_rate(settings_, project_id, project_name) ==
    LET projects == settings_.projects
        Hit(i) == \/ projects[i].project_id # 0 /\ projects[i].project_id = project_id
                  \/ NameTruthy(projects[i].name) /\ projects[i].name = project_name
        hits == {i \in 1..Len(projects) : Hit(i)}
    IN  IF hits = {} THEN 0
        ELSE projects[CHOOSE i \in hits : \A j \in hits : i <= j].hourly_rate

RECURSIVE GroupTotals(_, _, _)
\* the project_totals dict of _group_entries_by_project, in insertion order
GroupTotals(settings_, entries, totals) ==
    IF entries = <<>> THEN totals
    ELSE LET entry == Head(entries)
             project_key == <<entry.project_id, entry.project_name>>
             known == \E i \in 1..Len(totals) : totals[i].key = project_key
             withKey == IF known THEN totals
                        ELSE Append(totals, [key |-> project_key, hours |-> 0,
                                             rate |-> _get_project_rate(settings_, entry.project_id, entry.project_name)])
             k == CHOOSE i \in 1..Len(withKey) : withKey[i].key = project_key
         IN  GroupTotals(settings_, Tail(entries), [withKey EXCEPT ![k].hours = @ + hours(entry)])

\* InvoiceGenerator._group_entries_by_project
_group_entries_by_project(settings_, time_entries_) ==
    LET totals == GroupTotals(settings_, time_entries_, <<>>)
    IN  [i \in 1..Len(totals) |->
            InvoiceLineItem(<<totals[i].key[2]>>, totals[i].hours, totals[i].rate)]

\* the line items generate_pdf_invoice_from_summaries builds from the summaries
LineItemsFromSummaries(summaries_) ==
    LET HasHours(summary) == summary.hours > 0
        Item(summary) ==
            InvoiceLineItem(IF NameTruthy(summary.project.name)
                            THEN <<summary.project.name>>
                            ELSE <<"Project ", summary.project.project_id>>,
                            summary.hours, summary.project.hourly_rate)
    IN  MapSeq(SelectSeq(summaries_, HasHours), Item)

RECURSIVE SplitLines(_, _)
\* text.split('\n'): cur is the line being collected
SplitLines(text, cur) ==
    IF text = <<>> THEN <<cur>>
    ELSE IF Head(text) = "\n" THEN <<cur>> \o SplitLines(Tail(text), <<>>)
    ELSE SplitLines(Tail(text), Append(cur, Head(text)))

\* date.strftime("%m-%d-%Y")
strftimeMDY(dt) == TwoDigits(dt.m) \o <<"-">> \o TwoDigits(dt.d) \o <<"-">> \o FourDigits(dt.y)

InvoiceDueWeeks == 2

\* one table row of an item: name, f"{hours:.2f}", f"${rate:.2f}", f"${amount:.2f}"
TableRows(item) ==
    {[project_name |-> item.project_name, hours |-> h, rate |-> item.hourly_rate, amount |-> a] :
        h \in RoundChoices(item.hours, HoursScale), a \in amount(item)}

\* the story with the total amount taken as the rounded sum of the unrounded
\* products hours * rate
InvoiceDocuments_RoundedSum(settings_, line_items, today) ==
    {[title |-> "INVOICE",
      invoice_id |-> settings_.invoice_id,
      invoice_date |-> today,
      due_date |-> AddDays(today, 7 * InvoiceDueWeeks),
      payment_terms |-> settings_.payment_terms,
      service_period |-> IF Truthy(settings_.start_date) /\ Truthy(settings_.end_date)
                         THEN <<strftimeMDY(ParsedDate(settings_.start_date)), " to ",
                                strftimeMDY(ParsedDate(settings_.end_date))>>
                         ELSE <<>>,
      bill_to |-> IF settings_.billed_to # <<>> THEN SplitLines(settings_.billed_to, <<>>) ELSE <<>>,
      pay_to |-> IF settings_.pay_to # <<>> THEN SplitLines(settings_.pay_to, <<>>) ELSE <<>>,
      rows |-> rows,
      total |-> [hours |-> total_hours,
                 amount |-> total_amount]] :
        rows \in Product(MapSeq(line_items, TableRows)),
        total_hours \in RoundChoices(SumSeq([i \in 1..Len(line_items) |-> line_items[i].hours]), HoursScale),
        total_amount \in RoundChoices(SumSeq([i \in 1..Len(line_items) |->
                                                  line_items[i].hours * line_items[i].hourly_rate]),
                                       HoursScale * RateScale)}

\* The story both generate_pdf_invoice* methods build from the line items:
\* the set of documents doc.build can write (one per outcome of the roundings)
InvoiceDocuments(settings_, line_items, today) ==
    {[title |-> "INVOICE",
      invoice_id |-> settings_.invoice_id,
      invoice_date |-> today,
      due_date |-> AddDays(today, 7 * InvoiceDueWeeks),
      payment_terms |-> settings_.payment_terms,
      service_period |-> IF Truthy(settings_.start_date) /\ Truthy(settings_.end_date)
                         THEN <<strftimeMDY(ParsedDate(settings_.start_date)), " to ",
                                strftimeMDY(ParsedDate(settings_.end_date))>>
                         ELSE <<>>,
      bill_to |-> IF settings_.billed_to # <<>> THEN SplitLines(settings_.billed_to, <<>>) ELSE <<>>,
      pay_to |-> IF settings_.pay_to # <<>> THEN SplitLines(settings_.pay_to, <<>>) ELSE <<>>,
      rows |-> rows,
      total |-> [hours |-> total_hours,
                 amount |-> SumSeq([i \in 1..Len(rows) |-> rows[i].amount])]] :
        rows \in Product(MapSeq(line_items, TableRows)),
        total_hours \in RoundChoices(SumSeq([i \in 1..Len(line_items) |-> line_items[i].hours]), HoursScale)}

\* InvoiceGenerator.generate_pdf_invoice_from_summaries
generate_pdf_invoice_from_summaries(settings_, summaries_, today) ==
    InvoiceDocuments(settings_, LineItemsFromSummaries(summaries_), today)

\* InvoiceGenerator.generate_pdf_invoice
generate_pdf_invoice(settings_, time_entries_, today) ==
    InvoiceDocuments(settings_, _group_entries_by_project(settings_, time_entries_), today)

\* "if any([billed_to, pay_to, payment_terms, invoice_id])" and the overrides
\* of create_invoice / create_invoice_from_summaries
OverriddenSettings(settings_, billed_to, pay_to, payment_terms, invoice_id) ==
    LET any == \/ Truthy(billed_to) \/ Truthy(pay_to) \/ Truthy(payment_terms)
               \/ (invoice_id # NoneInt /\ invoice_id[1] # 0)
    IN  IF any
        THEN [settings_ EXCEPT
                !.billed_to = IF billed_to # None THEN billed_to ELSE @,
                !.pay_to = IF pay_to # None THEN pay_to ELSE @,
                !.payment_terms = IF payment_terms # None THEN payment_terms ELSE @,
                !.invoice_id = IF invoice_id # NoneInt THEN invoice_id[1] ELSE @]
        ELSE settings_

----------------------------------------------------------------------------
(* config.py: Settings and its validators *)

\* Settings.validate_date_format: TRUE when the validator returns v
validate_date_format(v) == v # None => strptime(v).ok

\* Settings.validate_date_range: start is info.data.get('start_date'), which is
\* None when start_date is absent or did not validate
validate_date_range(v, start) ==
    (v # None /\ Truthy(start)) => ~(Ymd2Ord(ParsedDate(v)) < Ymd2Ord(ParsedDate(start)))

\* The errors Settings() raises for a config file, one per failing field;
\* <<>> when the file validates.  Fields are validated in declaration order
\* and a field's validators run in definition order, stopping at the first error.
SettingsErrors(cfg) ==
    LET startOk == validate_date_format(cfg.start_date)
        data_start == IF startOk THEN cfg.start_date ELSE None
        startErr == IF startOk THEN <<>>
                    ELSE <<[field |-> "start_date",
                            msg |-> <<"Date must be in YYYY-MM-DD format, got: ", cfg.start_date>>]>>
        endErr == IF ~validate_date_format(cfg.end_date)
                  THEN <<[field |-> "end_date",
                          msg |-> <<"Date must be in YYYY-MM-DD format, got: ", cfg.end_date>>]>>
                  ELSE IF ~validate_date_range(cfg.end_date, data_start)
                  THEN <<[field |-> "end_date", msg |-> <<"end_date must be after start_date">>]>>
                  ELSE <<>>
    IN  startErr \o endErr

----------------------------------------------------------------------------
(* toggl.py: TogglClient *)

DefaultLookbackDays == 30
DefaultAheadDays == 1
BufferDaysBefore == 1
BufferDaysAfter == 2
FilterExtraDays == 1
HttpOk == 200

\* get_time_entries, lines 40-44: the date range after the defaults are applied
EffectiveStart(start_date, now_) ==
    IF start_date = None THEN strftime(AddDays(DateOf(now_), -DefaultLookbackDays)) ELSE start_date

EffectiveEnd(end_date, now_) ==
    IF end_date = None THEN strftime(AddDays(DateOf(now_), DefaultAheadDays)) ELSE end_date

\* the GET request with the end of the window widened by one day only
TimeEntriesRequest_OneDayAfter(start_date, end_date, now_) ==
    LET sd == EffectiveStart(start_date, now_)
        ed == EffectiveEnd(end_date, now_)
    IN  [method |-> "GET", url |-> <<"api/v9/me/time_entries">>,
         start_date |-> strftime(AddDays(ParsedDate(sd), -BufferDaysBefore)),
         end_date |-> strftime(AddDays(ParsedDate(ed), BufferDaysAfter - 1)),
         project_ids |-> <<>>]

\* get_time_entries, lines 46-58: the GET request with the buffered window
TimeEntriesRequest(start_date, end_date, now_) ==
    LET sd == EffectiveStart(start_date, now_)
        ed == EffectiveEnd(end_date, now_)
        api_start_date == IF sd # None THEN strftime(AddDays(ParsedDate(sd), -BufferDaysBefore)) ELSE sd
        api_end_date == IF ed # None THEN strftime(AddDays(ParsedDate(ed), BufferDaysAfter)) ELSE ed
    IN  [method |-> "GET", url |-> <<"api/v9/me/time_entries">>,
         start_date |-> api_start_date, end_date |-> api_end_date, project_ids |-> <<>>]

\* the filters with the end of the window at 23:59:59 of end_date itself
FilterTimeEntries_NoExtraDay(entries, start_date, end_date, now_) ==
    LET start_date_obj == AtTime(ParsedDate(EffectiveStart(start_date, now_)), 0, 0, 0)
        end_date_obj == AtTime(ParsedDate(EffectiveEnd(end_date, now_)), 23, 59, 59)
        InRange(entry) == DateTimeLeq(start_date_obj, entry.start) /\ DateTimeLeq(entry.start, end_date_obj)
    IN  SelectSeq(entries, InRange)

\* get_time_entries, lines 63-79: the filters applied to the validated response
FilterTimeEntries(entries, start_date, end_date, now_) ==
    LET sd == EffectiveStart(start_date, now_)
        ed == EffectiveEnd(end_date, now_)
        start_date_obj == AtTime(ParsedDate(sd), 0, 0, 0)
        next_day_obj == AtTime(AddDays(ParsedDate(ed), FilterExtraDays), 23, 59, 59)
        NotBefore(entry) == DateTimeLeq(start_date_obj, entry.start)
        NotAfter(entry) == DateTimeLeq(entry.start, next_day_obj)
        StartByToday(entry) == DateLeq(DateOf(entry.start), DateOf(now_))
        StopByToday(entry) == DateLeq(DateOf(entry.stop), DateOf(now_))
        afterStart == IF sd # None THEN SelectSeq(entries, NotBefore) ELSE entries
        afterEnd == IF ed # None THEN SelectSeq(afterStart, NotAfter) ELSE afterStart
    IN  IF sd = None /\ ed = None
        THEN SelectSeq(SelectSeq(afterEnd, StartByToday), StopByToday)
        ELSE afterEnd

\* the status test accepting every 2xx status
ReportSucceeded_Any2xx(response) == response.status \div 100 = 2

\* download_report, line 96: "if response.status_code == 200"
ReportSucceeded(response) == response.status = HttpOk

\* download_report, lines 87-94: the POST request
ReportRequest(workspace_id, start_date, end_date, project_ids, now_) ==
    [method |-> "POST",
     url |-> <<"reports/api/v3/workspace/", workspace_id, "/search/time_entries.pdf">>,
     start_date |-> IF start_date = None
                    THEN strftime(AddDays(DateOf(now_), -DefaultLookbackDays)) ELSE start_date,
     end_date |-> IF end_date = None THEN strftime(DateOf(now_)) ELSE end_date,
     project_ids |-> project_ids]

----------------------------------------------------------------------------
(* Files and errors *)

\* open(path, "wb").write(content) / doc.build: create or replace the file
\* JSON null where a datetime is expected
Null == [y |-> 0, m |-> 0, d |-> 0, hh |-> 0, mi |-> 0, ss |-> 0]

\* main with an exception that retries the fetch instead of ending the run
Raised_RetriesFetch == "loaded"

\* main has no try/except: a raised exception ends the run
Raised == "failed"

\* TimeEntry.model_validate(entry): the fields are typed and required, nothing
\* else is validated; stop: datetime rejects null
model_validate(entry) ==
    IF entry.stop = Null THEN <<"stop", "Input should be a valid datetime">> ELSE <<>>

\* ways self.client.get(...) and response.json() fail
FetchFailures == {"ConnectError", "JSONDecodeError"}

WriteFile(fs, path, content) ==
    [p \in (DOMAIN fs) \cup {path} |-> IF p = path THEN content ELSE fs[p]]

NoError == [kind |-> "none", msg |-> <<>>]
NoInvoice == [title |-> "none"]

NoOverrides == [billed_to |-> None, pay_to |-> None, payment_terms |-> None, invoice_id |-> NoneInt]

----------------------------------------------------------------------------
(* Inputs *)

MaxEntries == 3       \* longest upstream response of a command-line run
MaxLibEntries == 3    \* longest entry list handed to the library functions
MaxMilliHours == 3200 \* largest hour count formatted, in HoursScale units

DateTime(y, m, d, hh, mi, ss) == [y |-> y, m |-> m, d |-> d, hh |-> hh, mi |-> mi, ss |-> ss]

\* the local clock when the program starts
Clocks == {DateTime(2024, 1, 13, 10, 30, 0), DateTime(2024, 3, 1, 9, 0, 0)}

\* values of start_date / end_date in config.toml
RawDates ==
    {None,
     <<"2", "0", "2", "4", "-", "0", "1", "-", "1", "0">>,
     <<"2", "0", "2", "4", "-", "0", "1", "-", "1", "2">>,
     <<"2", "0", "2", "3", "-", "1", "2", "-", "3", "1">>,
     <<"2", "0", "2", "4", "-", "0", "2", "-", "2", "8">>,
     <<"2", "0", "2", "4", "-", "0", "3", "-", "0", "1">>,
     <<"2", "0", "2", "4", "-", "1", "-", "5">>,
     <<"2", "0", "2", "4", "-", "0", "2", "-", "3", "0">>,
     <<"1", "0", "/", "0", "1", "/", "2", "0", "2", "4">>}

MockProjects ==
    <<Project(123456, "Project 1", 7500),
      Project(789012, "Project 2", 3333),
      Project(345678, "Project 3", 9500)>>

BaseConfig ==
    [toggl_api_key |-> "token",
     projects |-> MockProjects,
     billed_to |-> <<"Client Inc.", "\n", "123 Fake Street">>,
     pay_to |-> <<"Developer">>,
     payment_terms |-> <<"Payment details on file">>,
     workspace_id |-> 42,
     invoice_id |-> 7,
     start_date |-> None,
     end_date |-> None]

Configs == {[BaseConfig EXCEPT !.start_date = sd, !.end_date = ed] : sd \in RawDates, ed \in RawDates}

NoSettings == [BaseConfig EXCEPT !.toggl_api_key = "", !.projects = <<>>]

\* a running entry as the service reports it: no stop yet, and the negated
\* start in epoch seconds as its duration
RunningEntry ==
    TimeEntry("Client", -1705140000, "Project 1", 123456, DateTime(2024, 1, 13, 10, 0, 0), Null)

\* entries the time-entries endpoint can return to a command-line run
UpstreamEntries ==
    {TimeEntry("Client", -1800, "Project 1", 123456,
               DateTime(2024, 1, 9, 23, 0, 0), DateTime(2024, 1, 9, 22, 30, 0)),
     TimeEntry("Client", 8820, "Project 1", 123456,
               DateTime(2024, 1, 10, 0, 0, 0), DateTime(2024, 1, 10, 2, 27, 0)),
     TimeEntry("Client", 7200, "Project 2", 789012,
               DateTime(2024, 1, 13, 23, 59, 59), DateTime(2024, 1, 14, 1, 59, 59)),
     TimeEntry("Client", 20, "Project 2", 789012,
               DateTime(2024, 1, 14, 0, 0, 0), DateTime(2024, 1, 14, 0, 0, 20)),
     RunningEntry}

\* answers of the report endpoint: status code and body
ReportResponses ==
    {[status |-> 200, body |-> "%PDF-1.4"],
     [status |-> 201, body |-> "Created"],
     [status |-> 403, body |-> "Incorrect username and/or password"],
     [status |-> 500, body |-> ""]}

NoUpstream == [entries |-> <<>>, report |-> [status |-> 0, body |-> ""]]

\* entries handed to the library functions
LibStart == DateTime(2024, 1, 10, 9, 0, 0)
LibStop == DateTime(2024, 1, 10, 11, 27, 0)
LibEntries ==
    {TimeEntry("Client", 8820, "Project 1", 123456, LibStart, LibStop),
     TimeEntry("Client", 1800, "Project 1", 123456, LibStart, LibStop),
     TimeEntry("Client", 20, "Project 1", 123456, LibStart, LibStop),
     TimeEntry("Client", 20, "Project 2", 789012, LibStart, LibStop),
     TimeEntry("Client", 0, "Project 2", 789012, LibStart, LibStop),
     TimeEntry("Client", -3600, "Project 2", 789012, LibStart, LibStop),
     TimeEntry("Client", 3600, "Other", 999, LibStart, LibStop)}

\* project lists of config.toml handed to the library functions
LibProjectLists ==
    {MockProjects,
     <<Project(789012, "Project 2", 3333), Project(123456, NoName, 7500)>>,
     <<Project(123456, "Project 1", 3333), Project(789012, "Project 2", 3333),
       Project(345678, "Project 3", 0)>>,
     <<>>}

\* override arguments of create_invoice / create_invoice_from_summaries
MockOverrides ==
    [billed_to |-> <<"Mock Client Inc.", "\n", "123 Fake Street", "\n", "Test City, TC 12345">>,
     pay_to |-> <<"Mock Developer", "\n", "456 Developer Lane", "\n", "Code City, CC 67890">>,
     payment_terms |-> <<"Net 30">>,
     invoice_id |-> SomeInt(1001)]

OverrideArgs ==
    {NoOverrides,
     MockOverrides,
     [NoOverrides EXCEPT !.invoice_id = SomeInt(0)],
     [NoOverrides EXCEPT !.billed_to = <<>>],
     [NoOverrides EXCEPT !.billed_to = <<>>, !.pay_to = <<"Mock Developer">>],
     [NoOverrides EXCEPT !.payment_terms = <<"Net 30">>]}

\* hourly rates of the projects whose summaries are formatted
FormatRates == {0, 3333, 7500}

----------------------------------------------------------------------------
(* A command-line run: __main__.main *)

Init ==
    /\ pc = "start"
    /\ now \in Clocks
    /\ config \in Configs
    /\ settings = NoSettings
    /\ upstream = NoUpstream
    /\ requests = <<>>
    /\ time_entries = <<>>
    /\ summaries = <<>>
    /\ printed = <<>>
    /\ invoice = NoInvoice
    /\ files = <<>>
    /\ error = NoError
    /\ overrides = NoOverrides

\* date_str = datetime.now().strftime("%Y%m%d")
date_str == strftimeCompact(DateOf(now))

\* main, line 9: settings = Settings()
LoadSettings ==
    /\ pc = "start"
    /\ LET errs == SettingsErrors(config)
       IN  IF errs = <<>>
           THEN /\ settings' = config
                /\ pc' = "loaded"
                /\ error' = error
           ELSE /\ settings' = settings
                /\ pc' = Raised
                /\ error' = [kind |-> "ValidationError", msg |-> errs]
    /\ UNCHANGED <<now, config, upstream, requests, time_entries, summaries, printed, invoice, files, overrides>>

\* main, lines 11-17: client.get_time_entries(settings.start_date, settings.end_date);
\* the request fails, or its answer is not JSON, or an entry of the answer does
\* not validate, or the validated entries are filtered and returned
GetTimeEntries ==
    /\ pc = "loaded"
    /\ requests' = Append(requests, TimeEntriesRequest(settings.start_date, settings.end_date, now))
    /\ \/ \E failure \in FetchFailures :
            /\ error' = [kind |-> failure, msg |-> <<>>]
            /\ pc' = Raised
            /\ UNCHANGED <<upstream, printed, time_entries>>
       \/ \E response \in SeqsUpTo(UpstreamEntries, MaxEntries) :
            /\ upstream' = [upstream EXCEPT !.entries = response]
            /\ printed' = Append(printed, <<"DEBUG: Response: ", response>>)
            /\ LET Invalid(entry) == model_validate(entry) # <<>>
                   invalid == SelectSeq(response, Invalid)
               IN  IF invalid # <<>>
                   THEN /\ error' = [kind |-> "ValidationError", msg |-> model_validate(invalid[1])]
                        /\ pc' = Raised
                        /\ time_entries' = time_entries
                   ELSE /\ time_entries' = FilterTimeEntries(response, settings.start_date,
                                                             settings.end_date, now)
                        /\ pc' = "fetched"
                        /\ error' = error
    /\ UNCHANGED <<now, config, settings, summaries, invoice, files, overrides>>

\* main, line 20: summaries = summarize_time_entries(time_entries, settings.projects)
SummarizeTimeEntries ==
    /\ pc = "fetched"
    /\ summaries' = summarize_time_entries(time_entries, settings.projects)
    /\ pc' = "summarized"
    /\ UNCHANGED <<now, config, settings, upstream, requests, time_entries, printed, invoice, files, error, overrides>>

\* main, lines 21-22: for summary in summaries: print(summary.short_summary)
PrintSummaries ==
    /\ pc = "summarized"
    /\ \E lines \in Product(MapSeq(summaries, short_summary)) :
        printed' = printed \o lines
    /\ pc' = "printed"
    /\ UNCHANGED <<now, config, settings, upstream, requests, time_entries, summaries, invoice, files, error, overrides>>

\* main, lines 25-26 / invoice.create_invoice_from_summaries; doc.build(story)
\* writes the file, or raises when the path cannot be written
CreateInvoiceFromSummaries(args) ==
    /\ pc = "printed"
    /\ LET filename == <<"invoices/invoice_", date_str, ".pdf">>
           generator_settings == OverriddenSettings(settings, args.billed_to, args.pay_to,
                                                    args.payment_terms, args.invoice_id)
       IN  \/ \E doc \in generate_pdf_invoice_from_summaries(generator_settings, summaries, DateOf(now)) :
                /\ invoice' = doc
                /\ files' = WriteFile(files, filename, doc)
                /\ printed' = Append(printed, <<"Invoice generated successfully: ", filename>>)
                /\ pc' = "invoiced"
                /\ error' = error
           \/ /\ error' = [kind |-> "OSError", msg |-> filename]
              /\ pc' = Raised
              /\ UNCHANGED <<invoice, files, printed, overrides>>
    /\ UNCHANGED <<now, config, settings, upstream, requests, time_entries, summaries, overrides>>

\* main, lines 29-36 / TogglClient.download_report
DownloadReport ==
    /\ pc = "invoiced"
    /\ LET filename == <<"reports/toggl_report_", date_str, ".pdf">>
           project_ids == [i \in 1..Len(settings.projects) |-> settings.projects[i].project_id]
       IN  \E response \in ReportResponses :
            /\ upstream' = [upstream EXCEPT !.report = response]
            /\ requests' = Append(requests, ReportRequest(settings.workspace_id, settings.start_date,
                                                          settings.end_date, project_ids, now))
            /\ IF ReportSucceeded(response)
               THEN /\ files' = WriteFile(files, filename, response.body)
                    /\ printed' = Append(printed, <<"Report downloaded successfully: ",
                                                    <<"toggl_report_", date_str, ".pdf">>>>)
                    /\ error' = error
                    /\ pc' = "done"
               ELSE /\ files' = files
                    /\ printed' = printed
                    /\ error' = [kind |-> "Exception",
                                 msg |-> <<"Failed to download report: ", response.status, " ", response.body>>]
                    /\ pc' = Raised
    /\ UNCHANGED <<now, config, settings, time_entries, summaries, invoice, overrides>>

Next ==
    \/ LoadSettings
    \/ GetTimeEntries
    \/ SummarizeTimeEntries
    \/ PrintSummaries
    \/ CreateInvoiceFromSummaries(overrides)
    \/ DownloadReport

Spec == Init /\ [][Next]_vars

----------------------------------------------------------------------------
(* The library functions on their own: analyze.summarize_time_entries, the  *)
(* summary properties and invoice.create_invoice* on any list of entries    *)

InitLib ==
    /\ pc = "fetched"
    /\ now = DateTime(2024, 1, 13, 10, 30, 0)
    /\ \E projects \in LibProjectLists :
        /\ config = [BaseConfig EXCEPT !.projects = projects]
        /\ settings = config
    /\ upstream = NoUpstream
    /\ requests = <<>>
    /\ time_entries \in SeqsUpTo(LibEntries, MaxLibEntries)
    /\ summaries = <<>>
    /\ printed = <<>>
    /\ invoice = NoInvoice
    /\ files = <<>>
    /\ error = NoError
    /\ overrides \in OverrideArgs

\* invoice.create_invoice(time_entries, filename, ...)
CreateInvoice(args) ==
    /\ pc = "fetched"
    /\ LET filename == <<"invoices/invoice_", date_str, ".pdf">>
           generator_settings == OverriddenSettings(settings, args.billed_to, args.pay_to,
                                                    args.payment_terms, args.invoice_id)
       IN  \E doc \in generate_pdf_invoice(generator_settings, time_entries, DateOf(now)) :
            /\ invoice' = doc
            /\ files' = WriteFile(files, filename, doc)
    /\ pc' = "invoiced_raw"
    /\ UNCHANGED <<now, config, settings, upstream, requests, time_entries, summaries, printed, error, overrides>>

NextLib ==
    \/ SummarizeTimeEntries
    \/ PrintSummaries
    \/ CreateInvoiceFromSummaries(overrides)
    \/ CreateInvoice(overrides)

SpecLib == InitLib /\ [][NextLib]_vars

----------------------------------------------------------------------------
(* ProjectSummary objects built directly, as generate_mock_invoice.py does, *)
(* and their short summaries                                                *)

InitFormat ==
    /\ pc = "summarized"
    /\ now = DateTime(2024, 1, 13, 10, 30, 0)
    /\ config = BaseConfig
    /\ settings = config
    /\ upstream = NoUpstream
    /\ requests = <<>>
    /\ time_entries = <<>>
    /\ \E h \in 0..MaxMilliHours, rate \in FormatRates :
        summaries = <<ProjectSummary(Project(123456, "Project 1", rate), Float(h), <<>>)>>
    /\ printed = <<>>
    /\ invoice = NoInvoice
    /\ files = <<>>
    /\ error = NoError
    /\ overrides = NoOverrides

NextFormat == PrintSummaries

SpecFormat == InitFormat /\ [][NextFormat]_vars

----------------------------------------------------------------------------
(* Several runs of the command line, one after the other, over the same      *)
(* working directory: the files of a run are there when the next one starts  *)

\* the local clock at the start of each run
RunClocks ==
    {DateTime(2024, 1, 13, 10, 30, 0), DateTime(2024, 1, 13, 15, 45, 10), DateTime(2024, 1, 14, 0, 0, 0)}

InitRuns ==
    /\ pc = "start"
    /\ now \in RunClocks
    /\ config = BaseConfig
    /\ settings = NoSettings
    /\ upstream = NoUpstream
    /\ requests = <<>>
    /\ time_entries = <<>>
    /\ summaries = <<>>
    /\ printed = <<>>
    /\ invoice = NoInvoice
    /\ files = <<>>
    /\ error = NoError
    /\ overrides = NoOverrides

\* the process has ended and the program is started again, later
StartRun ==
    /\ pc \in {"done", "failed"}
    /\ \E later \in RunClocks :
        /\ DateTimeLeq(now, later) /\ later # now
        /\ now' = later
    /\ pc' = "start"
    /\ settings' = NoSettings
    /\ upstream' = NoUpstream
    /\ requests' = <<>>
    /\ time_entries' = <<>>
    /\ summaries' = <<>>
    /\ printed' = <<>>
    /\ invoice' = NoInvoice
    /\ error' = NoError
    /\ UNCHANGED <<config, files, overrides>>

NextRuns ==
    \/ Next
    \/ StartRun

SpecRuns == InitRuns /\ [][NextRuns]_vars

----------------------------------------------------------------------------
(* Properties *)

\* calendar successor and predecessor of a date, by the rules of the calendar
NextDay(dt) ==
    IF dt.d < DaysInMonth(dt.y, dt.m) THEN [dt EXCEPT !.d = @ + 1]
    ELSE IF dt.m < 12 THEN [y |-> dt.y, m |-> dt.m + 1, d |-> 1]
    ELSE [y |-> dt.y + 1, m |-> 1, d |-> 1]

PrevDay(dt) ==
    IF dt.d > 1 THEN [dt EXCEPT !.d = @ - 1]
    ELSE IF dt.m > 1 THEN [y |-> dt.y, m |-> dt.m - 1, d |-> DaysInMonth(dt.y, dt.m - 1)]
    ELSE [y |-> dt.y - 1, m |-> 12, d |-> 31]

Stamp(t) == <<t.y, t.m, t.d, t.hh, t.mi, t.ss>>

RECURSIVE LexLeq(_, _)
LexLeq(a, b) ==
    IF a = <<>> THEN TRUE
    ELSE Head(a) < Head(b) \/ (Head(a) = Head(b) /\ LexLeq(Tail(a), Tail(b)))

\* instant a is not later than instant b
NotLater(a, b) == LexLeq(Stamp(a), Stamp(b))

Date_2024_01_09 == <<"2", "0", "2", "4", "-", "0", "1", "-", "0", "9">>
Date_2024_01_10 == <<"2", "0", "2", "4", "-", "0", "1", "-", "1", "0">>
Date_2024_01_12 == <<"2", "0", "2", "4", "-", "0", "1", "-", "1", "2">>
Date_2024_01_14 == <<"2", "0", "2", "4", "-", "0", "1", "-", "1", "4">>
Date_2023_12_31 == <<"2", "0", "2", "3", "-", "1", "2", "-", "3", "1">>
Date_2024_01_02 == <<"2", "0", "2", "4", "-", "0", "1", "-", "0", "2">>
Date_2024_02_28 == <<"2", "0", "2", "4", "-", "0", "2", "-", "2", "8">>
Date_2024_02_29 == <<"2", "0", "2", "4", "-", "0", "2", "-", "2", "9">>
Date_2024_03_01 == <<"2", "0", "2", "4", "-", "0", "3", "-", "0", "1">>

\* summarize_time_entries has returned
Summarized == pc \in {"summarized", "printed", "invoiced", "done"}

\* the positions of the entries of a project in a list of entries
MatchingIndices(entries, project) ==
    {j \in 1..Len(entries) : entries[j].project_id = project.project_id}

RECURSIVE HoursAt(_, _)
\* the sum of the per-entry hours at a set of positions
HoursAt(entries, idx) ==
    IF idx = {} THEN 0
    ELSE LET j == CHOOSE k \in idx : TRUE
         IN  hours(entries[j]) + HoursAt(entries, idx \ {j})

RECURSIVE DurationAt(_, _)
\* the summed duration at a set of positions
DurationAt(entries, idx) ==
    IF idx = {} THEN 0
    ELSE LET j == CHOOSE k \in idx : TRUE
         IN  entries[j].duration + DurationAt(entries, idx \ {j})

\* c hundredths of an hour is duration / 3600 rounded to two decimals
IsRoundedHours(c, duration) ==
    /\ SecondsPerHour * c - SecondsPerHour \div 2 <= 100 * duration
    /\ 100 * duration <= SecondsPerHour * c + SecondsPerHour \div 2

\* C1: summarize_time_entries returns one ProjectSummary per project, in the
\* order of the project list; its hours is the sum, over the entries with the
\* project's id, of the per-entry hours (duration / 3600 rounded to two
\* decimals, entry by entry); its total_revenue is hours x hourly_rate; a
\* project without entries gets hours 0 and revenue 0, and no error is raised.
C1_OneSummaryPerProject ==
    Summarized =>
        /\ error = NoError
        /\ Len(summaries) = Len(settings.projects)
        /\ \A j \in 1..Len(time_entries) :
              /\ hours(time_entries[j]) % (HoursScale \div 100) = 0
              /\ IsRoundedHours(hours(time_entries[j]) \div (HoursScale \div 100), time_entries[j].duration)
        /\ \A i \in 1..Len(summaries) :
              LET project == settings.projects[i]
                  idx == MatchingIndices(time_entries, project)
              IN  /\ summaries[i].project = project
                  /\ summaries[i].hours = HoursAt(time_entries, idx)
                  /\ total_revenue(summaries[i]) = HoursAt(time_entries, idx) * project.hourly_rate
                  /\ idx = {} => summaries[i].hours = 0 /\ total_revenue(summaries[i]) = 0

\* C1 witness: a project whose summed per-entry hours differ from the rounded
\* total duration, next to a project without entries
C1_Witness ==
    /\ pc = "summarized"
    /\ \E i, k \in 1..Len(summaries) :
          LET idx == MatchingIndices(time_entries, settings.projects[i])
          IN  /\ Cardinality(idx) >= 2
              /\ summaries[i].hours # RoundedCentiHours(DurationAt(time_entries, idx)) * (HoursScale \div 100)
              /\ summaries[i].hours > 0
              /\ MatchingIndices(time_entries, settings.projects[k]) = {}
              /\ summaries[k].hours = 0

\* the time-entries query has been issued
Queried == Len(requests) >= 1
\* get_time_entries raised instead of returning
FetchRaised == pc = "failed" /\ error.kind \in FetchFailures \cup {"ValidationError"}
\* get_time_entries has returned its list of entries
Fetched == Queried /\ ~FetchRaised
\* the configuration names both ends of the date range
ExplicitRange == settings.start_date # None /\ settings.end_date # None

\* the entry starts within [start_date 00:00:00, (end_date + 1 day) 23:59:59] UTC
InRequestedWindow(entry) ==
    /\ NotLater(AtTime(ParsedDate(settings.start_date), 0, 0, 0), entry.start)
    /\ NotLater(entry.start, AtTime(NextDay(ParsedDate(settings.end_date)), 23, 59, 59))

\* C2: with an explicit start_date and end_date, get_time_entries returns
\* exactly the upstream entries, in upstream order, whose start lies between
\* start_date 00:00:00 UTC and 23:59:59 UTC of the day after end_date,
\* whatever their stop timestamp.
C2_ExplicitRangeFilter ==
    (Fetched /\ ExplicitRange) => time_entries = SelectSeq(upstream.entries, InRequestedWindow)

\* C2 witness: for 2024-01-10..2024-01-12 an entry starting 2024-01-09T23:00:00Z
\* is dropped, one starting 2024-01-14T00:00:00Z is dropped, and one starting
\* 2024-01-13T23:59:59Z is kept although it stops after the window
C2_Witness ==
    /\ pc = "fetched"
    /\ settings.start_date = Date_2024_01_10
    /\ settings.end_date = Date_2024_01_12
    /\ Len(upstream.entries) = 3
    /\ upstream.entries[1].start = DateTime(2024, 1, 9, 23, 0, 0)
    /\ upstream.entries[2].start = DateTime(2024, 1, 13, 23, 59, 59)
    /\ upstream.entries[3].start = DateTime(2024, 1, 14, 0, 0, 0)
    /\ time_entries = <<upstream.entries[2]>>
    /\ ~NotLater(time_entries[1].stop, DateTime(2024, 1, 13, 23, 59, 59))

IsGet(request) == request.method = "GET"

\* C3: the single time-entries query of get_time_entries carries the requested
\* start_date minus one day and the requested end_date plus two days, also
\* across month and year boundaries (2024-01-10..2024-01-12 is queried as
\* 2024-01-09..2024-01-14).
C3_BufferedQuery ==
    (Queried /\ ExplicitRange) =>
        LET gets == SelectSeq(requests, IsGet)
            start == ParsedDate(settings.start_date)
            end == ParsedDate(settings.end_date)
        IN  /\ Len(gets) = 1
            /\ gets[1].start_date = strftime(PrevDay(start))
            /\ gets[1].end_date = strftime(NextDay(NextDay(end)))
            /\ settings.start_date = Date_2024_01_10 => gets[1].start_date = Date_2024_01_09
            /\ settings.end_date = Date_2024_01_12 => gets[1].end_date = Date_2024_01_14
            /\ settings.start_date = Date_2024_03_01 => gets[1].start_date = Date_2024_02_29
            /\ settings.end_date = Date_2023_12_31 => gets[1].end_date = Date_2024_01_02
            /\ settings.end_date = Date_2024_02_28 => gets[1].end_date = Date_2024_03_01

\* C3 witness: the window 2024-01-10..2024-01-12 queried as 2024-01-09..2024-01-14
C3_Witness ==
    /\ pc = "fetched"
    /\ settings.start_date = Date_2024_01_10
    /\ settings.end_date = Date_2024_01_12
    /\ requests[1].method = "GET"
    /\ requests[1].start_date = Date_2024_01_09
    /\ requests[1].end_date = Date_2024_01_14

\* C4: without an explicit date range, every entry get_time_entries returns has
\* its start date and its stop date on or before today.
C4_DefaultRangeFilter ==
    (Fetched /\ settings.start_date = None /\ settings.end_date = None) =>
        \A i \in 1..Len(time_entries) :
            /\ LexLeq(<<time_entries[i].start.y, time_entries[i].start.m, time_entries[i].start.d>>,
                      <<now.y, now.m, now.d>>)
            /\ LexLeq(<<time_entries[i].stop.y, time_entries[i].stop.m, time_entries[i].stop.d>>,
                      <<now.y, now.m, now.d>>)

ReportPath == <<"reports/toggl_report_", date_str, ".pdf">>

\* C5: download_report writes the response bytes to the target file if and
\* only if the status is exactly 200; for every other status it raises an error
\* whose message carries the status code and the response body, and it creates
\* or modifies no file.
C5_ReportWrittenOnlyOn200 ==
    [][(pc = "invoiced" /\ pc' # "invoiced") =>
         LET response == upstream'.report
         IN  IF response.status = 200
             THEN /\ ReportPath \in DOMAIN files'
                  /\ files'[ReportPath] = response.body
                  /\ \A path \in DOMAIN files : path # ReportPath => files'[path] = files[path]
                  /\ error' = NoError
                  /\ pc' = "done"
             ELSE /\ files' = files
                  /\ error'.kind = "Exception"
                  /\ error'.msg[2] = response.status
                  /\ error'.msg[4] = response.body
                  /\ pc' = "failed"]_vars

\* C5 witness: status 201 raised the error and left only the invoice on disk
C5_Witness ==
    /\ pc = "failed"
    /\ upstream.report.status = 201
    /\ error.kind = "Exception"
    /\ error.msg = <<"Failed to download report: ", 201, " ", "Created">>
    /\ ReportPath \notin DOMAIN files
    /\ Cardinality(DOMAIN files) = 1

\* s is a date written as YYYY-MM-DD: four, two and two digits, a real day
StrictYMD(s) ==
    /\ Len(s) = 10
    /\ \A i \in {1, 2, 3, 4, 6, 7, 9, 10} : IsDigit(s[i])
    /\ s[5] = "-" /\ s[8] = "-"
    /\ LET year == DigitVal(s[1]) * 1000 + DigitVal(s[2]) * 100 + DigitVal(s[3]) * 10 + DigitVal(s[4])
           month == DigitVal(s[6]) * 10 + DigitVal(s[7])
           day == DigitVal(s[9]) * 10 + DigitVal(s[10])
       IN  /\ year >= 1
           /\ month \in 1..12
           /\ day >= 1 /\ day <= DaysInMonth(year, month)

\* the digits of a YYYY-MM-DD string, which order as the dates do
YMDDigits(s) == [i \in 1..8 |-> DigitVal(s[<<1, 2, 3, 4, 6, 7, 9, 10>>[i]])]

\* the configuration file has a start_date or end_date that is not a valid
\* YYYY-MM-DD date, or an end_date earlier than its start_date
BadDateConfig ==
    \/ config.start_date # None /\ ~StrictYMD(config.start_date)
    \/ config.end_date # None /\ ~StrictYMD(config.end_date)
    \/ /\ config.start_date # None /\ StrictYMD(config.start_date)
       /\ config.end_date # None /\ StrictYMD(config.end_date)
       /\ ~LexLeq(YMDDigits(config.start_date), YMDDigits(config.end_date))

\* C6: a configuration with an invalid date, or with end_date before start_date,
\* is rejected before any network call: no GET and no POST is ever issued; a
\* configuration with end_date equal to start_date is accepted.
C6_BadDatesRejectedBeforeNetwork ==
    /\ BadDateConfig => requests = <<>>
    /\ (pc # "start" /\ config.start_date # None /\ StrictYMD(config.start_date)
          /\ config.end_date = config.start_date) => settings = config

\* C7: for every configuration that passes validation the time-entries query is
\* issued with a start_date parameter not later than its end_date parameter.
C7_QueryStartNotAfterEnd ==
    Queried =>
        LET start == ParsedDate(requests[1].start_date)
            end == ParsedDate(requests[1].end_date)
        IN  LexLeq(<<start.y, start.m, start.d>>, <<end.y, end.m, end.d>>)

\* the name a summary's row shows
RowName(summary) ==
    IF NameTruthy(summary.project.name) THEN <<summary.project.name>>
    ELSE <<"Project ", summary.project.project_id>>

\* C8: the invoice table has exactly one row per summary with nonzero hours, in
\* the order of the summaries, and none for a zero-hour summary; rendering
\* leaves the summaries unchanged, and the caller has printed all of them.
C8_RowPerNonzeroSummary ==
    /\ [](pc = "invoiced" =>
            LET NonZero(summary) == summary.hours # 0
                billed == SelectSeq(summaries, NonZero)
            IN  /\ Len(invoice.rows) = Len(billed)
                /\ \A i \in 1..Len(billed) :
                      /\ invoice.rows[i].project_name = RowName(billed[i])
                      /\ invoice.rows[i].hours * (HoursScale \div 100) = billed[i].hours
                /\ \A i \in 1..Len(summaries) :
                      printed[Len(printed) - 1 - Len(summaries) + i] \in short_summary(summaries[i]))
    /\ [][(pc = "printed" /\ pc' = "invoiced") => summaries' = summaries]_vars

Rendered == pc \in {"invoiced", "invoiced_raw", "done"} \/ (pc = "failed" /\ invoice # NoInvoice)

\* C9: in every rendered invoice, from summaries or from raw entries, each
\* line-item amount is hours x hourly_rate rounded to two decimals, the totals
\* row's amount is the sum of these rounded amounts (not the rounded sum of the
\* unrounded products) and the totals row's hours is the sum of the rows' hours.
C9_TotalIsSumOfRoundedItems ==
    Rendered =>
        /\ \A i \in 1..Len(invoice.rows) :
              invoice.rows[i].amount \in
                  RoundChoices(invoice.rows[i].hours * invoice.rows[i].rate, 100 * RateScale)
        /\ invoice.total.amount = SumSeq([i \in 1..Len(invoice.rows) |-> invoice.rows[i].amount])
        /\ invoice.total.hours = SumSeq([i \in 1..Len(invoice.rows) |-> invoice.rows[i].hours])

\* C9 witness: an invoice of several rows whose total differs from the rounded
\* sum of the unrounded products
C9_Witness ==
    /\ pc = "invoiced"
    /\ Len(invoice.rows) >= 2
    /\ invoice.total.amount \notin
          RoundChoices(SumSeq([i \in 1..Len(invoice.rows) |-> invoice.rows[i].hours * invoice.rows[i].rate]),
                       100 * RateScale)

----------------------------------------------------------------------------
(* The 2.45-hour scenario *)

\* project i is project 123456 at 75 an hour, the entries are three entries of
\* 8820 seconds for it, and the summaries have been printed
ThreeEntriesOf245(i) ==
    /\ pc = "printed"
    /\ i \in 1..Len(settings.projects)
    /\ settings.projects[i].project_id = 123456
    /\ settings.projects[i].hourly_rate = 7500
    /\ Len(time_entries) = 3
    /\ \A j \in 1..3 : time_entries[j].project_id = 123456 /\ time_entries[j].duration = 8820

\* C11: three entries of 2.45 hours for project 123456 at 75 an hour give a
\* summary with hours 7.35 and total_revenue 551.25 whose short summary reads
\* "7h 20m - 551.25".
C11_ShortSummary7h20m ==
    \A i \in 1..Len(settings.projects) :
        ThreeEntriesOf245(i) =>
            /\ summaries[i].hours = 7350
            /\ total_revenue(summaries[i]) = 55125 * ((HoursScale * RateScale) \div 100)
            /\ SubSeq(printed[i], 3, 5) = <<<<7, "h ", 20, "m">>, " - ", 55125>>

\* C11 as the code computes it: the sum 2.45 + 2.45 + 2.45 is the double just
\* above 7.35 (7.3500000000000005), total_revenue is 551.25 and the short
\* summary reads "7h 21m - 551.25".
C11_ShortSummary7h21m ==
    \A i \in 1..Len(settings.projects) :
        ThreeEntriesOf245(i) =>
            /\ summaries[i].hours = 7350
            /\ summaries[i].hours_binary.err > 0
            /\ total_revenue(summaries[i]) = 55125 * ((HoursScale * RateScale) \div 100)
            /\ SubSeq(printed[i], 3, 5) = <<<<7, "h ", 21, "m">>, " - ", 55125>>

\* C11 witness: the scenario printed for the first project of the mock list
C11_Witness ==
    /\ ThreeEntriesOf245(1)
    /\ settings.projects = MockProjects
    /\ printed[1] = <<"Project 1", " - ", <<7, "h ", 21, "m">>, " - ", 55125>>

----------------------------------------------------------------------------
(* Output paths of successive runs *)

InvoicePath == <<"invoices/invoice_", date_str, ".pdf">>

\* C12: two runs started at different times write their invoice to different
\* paths and their report to different paths: no run writes to a path that
\* holds the output of an earlier run.
C12_RunsNeverOverwrite ==
    [][/\ (pc = "printed" /\ pc' = "invoiced") => InvoicePath \notin DOMAIN files
       /\ (pc = "invoiced" /\ pc' = "done") => ReportPath \notin DOMAIN files]_vars

----------------------------------------------------------------------------
(* The pipeline of one run *)

\* the position of a run: how many steps it has completed
StepRank ==
    [p \in {"start", "loaded", "fetched", "summarized", "printed", "invoiced", "done"} |->
        CASE p = "start" -> 0
          [] p = "loaded" -> 1
          [] p = "fetched" -> 2
          [] p = "summarized" -> 3
          [] p = "printed" -> 4
          [] p = "invoiced" -> 5
          [] p = "done" -> 6]

IsPost(request) == request.method = "POST"

\* C13: the steps of a run happen in the order load configuration, fetch,
\* aggregate (and print), write the invoice, download the report, each at most
\* once: every step of the run either completes the next stage or fails, and
\* nothing happens after a failure or after the last step; there is at most one
\* GET and one POST, the GET first; the invoice file exists only once the
\* invoice step is done and the report file only at the end; a failed download
\* leaves the invoice file as written.
C13_SequentialNoRetry ==
    /\ [](/\ Len(SelectSeq(requests, IsGet)) <= 1
          /\ Len(SelectSeq(requests, IsPost)) <= 1
          /\ (requests # <<>> => IsGet(requests[1]))
          /\ (requests # <<>> => settings = config)
          /\ (Len(requests) = 2 => InvoicePath \in DOMAIN files)
          /\ (InvoicePath \in DOMAIN files => summaries = summarize_time_entries(time_entries, settings.projects))
          /\ (ReportPath \in DOMAIN files => pc = "done" /\ Len(requests) = 2)
          /\ (pc = "done" => DOMAIN files = {InvoicePath, ReportPath}))
    /\ [][/\ pc \notin {"done", "failed"}
          /\ pc' = "failed" \/ (pc' # "failed" /\ StepRank[pc'] = StepRank[pc] + 1)
          /\ (pc' = "failed" => error' # NoError /\ error = NoError)
          /\ (pc = "invoiced" /\ pc' = "failed") =>
                /\ files' = files
                /\ DOMAIN files = {InvoicePath}
                /\ files[InvoicePath] = invoice]_vars

\* C13 witness: the download failed after the GET and the POST, and the invoice
\* of the run is still there
C13_Witness ==
    /\ pc = "failed"
    /\ error.kind = "Exception"
    /\ Len(requests) = 2 /\ IsGet(requests[1]) /\ IsPost(requests[2])
    /\ DOMAIN files = {InvoicePath}
    /\ files[InvoicePath] = invoice
    /\ Len(invoice.rows) >= 1

----------------------------------------------------------------------------
(* Validation of upstream entries *)

\* C14: every entry built from an upstream response that reaches the
\* aggregator has stop >= start and duration >= 0; an upstream entry violating
\* either is rejected by validation.
C14_EntriesValidated ==
    Summarized =>
        \A i \in 1..Len(time_entries) :
            /\ NotLater(time_entries[i].start, time_entries[i].stop)
            /\ time_entries[i].duration >= 0

----------------------------------------------------------------------------
(* Override arguments of create_invoice and create_invoice_from_summaries *)

\* the address block the invoice shows for a text
AddressLines(text) == IF text # <<>> THEN SplitLines(text, <<>>) ELSE <<>>

\* an invoice has been generated by one of the two convenience functions
InvoiceCreated == pc \in {"invoiced", "invoiced_raw"}

\* C15: each of billed_to, pay_to, payment_terms and invoice_id that the caller
\* provides (anything but None, also "" and 0, alone or with others) replaces
\* the configured value in the generated invoice; each argument not provided
\* leaves the configured value in effect.
C15_ProvidedArgumentsOverride ==
    InvoiceCreated =>
        /\ invoice.bill_to = AddressLines(IF overrides.billed_to # None THEN overrides.billed_to
                                          ELSE settings.billed_to)
        /\ invoice.pay_to = AddressLines(IF overrides.pay_to # None THEN overrides.pay_to
                                         ELSE settings.pay_to)
        /\ invoice.payment_terms = (IF overrides.payment_terms # None THEN overrides.payment_terms
                                    ELSE settings.payment_terms)
        /\ invoice.invoice_id = (IF overrides.invoice_id # NoneInt THEN overrides.invoice_id[1]
                                 ELSE settings.invoice_id)

----------------------------------------------------------------------------
(* The entries a summary carries *)

\* C16: the entries field of every summary returned by summarize_time_entries
\* holds exactly the input entries of the summary's project, so the summary's
\* hours is the sum of the hours of the entries it carries.
C16_SummaryCarriesOwnEntries ==
    Summarized =>
        \A i \in 1..Len(summaries) :
            /\ summaries[i].entries = EntriesOf(time_entries, summaries[i].project)
            /\ summaries[i].hours = SumSeq(MapSeq(summaries[i].entries, hours))

====
